---------------------------- MODULE Spec2Model ----------------------------
(***************************************************************************)
(* A model of fancy_collections: the Axis descriptor bound to a            *)
(* SliceDict-like container (core.py), the label algebra and the           *)
(* DictOfPandas operations (core.py), and the equality helpers (lib.py).   *)
(*                                                                         *)
(* A container's instance.data is an insertion-ordered dict; it is         *)
(* modelled as a sequence of entries [key, val] without repeated keys.     *)
(* A key is a record [t, s]: its type ("str" or "int") and its str()       *)
(* form, so that the int 1 and the string "1" are two keys with one        *)
(* string form.                                                            *)
(***************************************************************************)
EXTENDS Integers, Sequences, FiniteSets, TLC

VARIABLES
    data,    \* instance.data of the container under test
    klass,   \* its class: "ColumnContainer" or "RestrictedChild"
    op,      \* the operation performed last
    ret,     \* what it returned, or the category of the error it raised
    arg      \* what the claims need of the last call's argument

vars == <<data, klass, op, ret, arg>>

\* ------------------------------------------------------------------ bounds

\* The largest number of entries a container is grown to.
MaxLen == 3

\* The largest number of entries a DictOfPandas is grown to.
MaxEntries == 2

\* ------------------------------------------------------------------- keys

StrKey(s) == [t |-> "str", s |-> s]
IntKey(s) == [t |-> "int", s |-> s]

\* The keys and labels of the axis specification: 'a', 'b', 'c' and the int 1.
AxisKeys == {StrKey("a"), StrKey("b"), StrKey("c"), IntKey("1")}

\* The values of the axis specification (any object: SliceDict has no
\* restriction on values).
AxisValues == {10, 20}

\* Sequences over S of length at most n.
RECURSIVE SeqsUpTo(_, _)
SeqsUpTo(S, n) ==
    IF n = 0 THEN {<<>>}
    ELSE LET shorter == SeqsUpTo(S, n - 1)
         IN  shorter \cup {Append(q, x) : q \in {r \in shorter : Len(r) = n - 1}, x \in S}

\* ------------------------------------------------------- the ordered dict

Entry(k, v) == [key |-> k, val |-> v]

\* list(d.keys()), list(d.values())
KeysOf(d) == [i \in 1..Len(d) |-> d[i].key]
ValuesOf(d) == [i \in 1..Len(d) |-> d[i].val]
KeySet(d) == {d[i].key : i \in 1..Len(d)}
HasKey(d, k) == k \in KeySet(d)
PosOf(d, k) == CHOOSE i \in 1..Len(d) : d[i].key = k
Lookup(d, k) == d[PosOf(d, k)].val

\* remove the entry at position i
RemoveAt(d, i) == [j \in 1..(Len(d) - 1) |-> IF j < i THEN d[j] ELSE d[j + 1]]

\* dict.__setitem__ on the raw dict: an existing key keeps its position
DictSet(d, k, v) ==
    IF HasKey(d, k)
    THEN [d EXCEPT ![PosOf(d, k)] = Entry(k, v)]
    ELSE Append(d, Entry(k, v))

\* The per-item hook __setitem_single__: RestrictedChild raises TypeError
\* for a key that is no str; the other classes accept every key.
HookRejects(cls, k) == cls = "RestrictedChild" /\ k.t # "str"

\* instance[k] = v: the hook, then the store.  Result: [data, exc].
SetItem(d, cls, k, v) ==
    IF HookRejects(cls, k)
    THEN [data |-> d, exc |-> "TypeError"]
    ELSE [data |-> DictSet(d, k, v), exc |-> "None"]

\* instance.update(pairs): one SetItem per pair, in order; the first
\* error stops it and leaves the pairs stored before it in place.
RECURSIVE Update(_, _, _)
Update(d, cls, pairs) ==
    IF pairs = <<>>
    THEN [data |-> d, exc |-> "None"]
    ELSE LET r == SetItem(d, cls, Head(pairs)[1], Head(pairs)[2])
         IN  IF r.exc # "None" THEN r ELSE Update(r.data, cls, Tail(pairs))

\* del instance[k]
DelItem(d, k) ==
    IF HasKey(d, k)
    THEN [data |-> RemoveAt(d, PosOf(d, k)), exc |-> "None"]
    ELSE [data |-> d, exc |-> "KeyError"]

\* zip(a, b): pairs up to the shorter length
Min(a, b) == IF a < b THEN a ELSE b
Zip(a, b) == [i \in 1..Min(Len(a), Len(b)) |-> <<a[i], b[i]>>]

\* ------------------------------------------------------------------- Axis

\* pandas.Index(labels): for labels that are str or int objects the index
\* holds the same elements in the same order.
PdIndex(labels) == [i \in 1..Len(labels) |-> labels[i]]

\* pandas.Index.is_unique
IsUnique(idx) == \A i, j \in 1..Len(idx) : i # j => idx[i] # idx[j]

\* Axis.__get__ as it would be if the labels were cached when they are set
Axis__get__Cached(d) == PdIndex(arg.labels)

\* Axis.__get__ on an instance
Axis__get__(d) == PdIndex(KeysOf(d))

\* Axis.__set__ without the restoring finally clause: the dict update()
\* was filling stays in place
Axis__set__NoRestore(d, cls, value) ==
    LET idx == PdIndex(value)
    IN  IF ~IsUnique(idx) THEN [data |-> d, exc |-> "ValueError"]
        ELSE IF Len(KeysOf(d)) # Len(idx) THEN [data |-> d, exc |-> "ValueError"]
        ELSE Update(<<>>, cls, Zip(idx, ValuesOf(d)))

\* Axis.__set__ without the clear: update() runs on the old dict
Axis__set__NoClear(d, cls, value) ==
    LET idx == PdIndex(value)
    IN  IF ~IsUnique(idx) THEN [data |-> d, exc |-> "ValueError"]
        ELSE IF Len(KeysOf(d)) # Len(idx) THEN [data |-> d, exc |-> "ValueError"]
        ELSE LET r == Update(d, cls, Zip(idx, ValuesOf(d)))
             IN  [data |-> IF r.exc = "None" THEN r.data ELSE d, exc |-> r.exc]

\* Axis.__set__ without the is_unique check
Axis__set__NoUniqueCheck(d, cls, value) ==
    LET idx == PdIndex(value)
    IN  IF Len(KeysOf(d)) # Len(idx) THEN [data |-> d, exc |-> "ValueError"]
        ELSE LET r == Update(<<>>, cls, Zip(idx, ValuesOf(d)))
             IN  [data |-> IF r.exc = "None" THEN r.data ELSE d, exc |-> r.exc]

\* Axis.__set__: the two checks, then clear, update() and the finally
\* clause that puts back the dict named by the local `data`.
Axis__set__(d, cls, value) ==
    LET idx == PdIndex(value)
    IN  IF ~IsUnique(idx) THEN [data |-> d, exc |-> "ValueError"]
        ELSE IF Len(KeysOf(d)) # Len(idx) THEN [data |-> d, exc |-> "ValueError"]
        ELSE LET old == d                                  \* data = instance.data
                 r == Update(<<>>, cls, Zip(idx, ValuesOf(old)))
                 local == IF r.exc = "None" THEN r.data ELSE old
             IN  [data |-> local, exc |-> r.exc]           \* finally: instance.data = data


\* ------------------------------------------- the axis specification: Spec

Result(exc, val) == [exc |-> exc, val |-> val]

Classes == {"ColumnContainer", "RestrictedChild"}

\* the mappings given to update() and to |=
UpdateArgs == SeqsUpTo(AxisKeys \X {20}, 2)

\* the label lists given to axis.set
LabelArgs == SeqsUpTo(AxisKeys, MaxLen)

\* the first position of labels that the hook of cls rejects, 0 if none
FirstRejected(cls, labels) ==
    IF \E i \in 1..Len(labels) : HookRejects(cls, labels[i])
    THEN CHOOSE i \in 1..Len(labels) :
            /\ HookRejects(cls, labels[i])
            /\ \A j \in 1..(i - 1) : ~HookRejects(cls, labels[j])
    ELSE 0

NoArg == [labels |-> <<>>, n |-> 0, dup |-> FALSE, rej |-> 0, new |-> FALSE]

\* What is kept of the labels given to axis.set: the labels themselves when
\* the call returned; their count and whether a label repeats; the first
\* position the hook rejected when the call raised TypeError; whether the
\* labels of a call that returned differ from the keys the container had.
LabelsArg(d, cls, labels, exc) ==
    [labels |-> IF exc = "None" THEN labels ELSE <<>>,
     n      |-> Len(labels),
     dup    |-> \E i, j \in 1..Len(labels) : i < j /\ labels[i] = labels[j],
     rej    |-> IF exc = "TypeError" THEN FirstRejected(cls, labels) ELSE 0,
     new    |-> exc = "None" /\ labels # KeysOf(d)]

Init ==
    /\ data = <<>>
    /\ klass \in Classes
    /\ op = "init"
    /\ ret = Result("None", <<>>)
    /\ arg = NoArg

\* a mapping mutation leaves nothing of the call but its name and outcome
Mutated(name, r) ==
    /\ Len(r.data) <= MaxLen
    /\ data' = r.data
    /\ op' = name
    /\ ret' = Result(r.exc, <<>>)
    /\ arg' = NoArg
    /\ UNCHANGED klass

\* instance[k] = v
SetItemCall ==
    \E k \in AxisKeys, v \in AxisValues :
        Mutated("setitem", SetItem(data, klass, k, v))

\* del instance[k]
DelItemCall ==
    \E k \in AxisKeys : Mutated("delitem", DelItem(data, k))

\* instance.update(pairs)
UpdateCall ==
    \E pairs \in UpdateArgs : Mutated("update", Update(data, klass, pairs))

\* instance |= pairs: update() and return self
IorCall ==
    \E pairs \in UpdateArgs : Mutated("ior", Update(data, klass, pairs))

\* instance.setdefault(k, v)
SetDefaultCall ==
    \E k \in AxisKeys, v \in AxisValues :
        Mutated("setdefault",
                IF HasKey(data, k) THEN [data |-> data, exc |-> "None"]
                ELSE SetItem(data, klass, k, v))

\* instance.pop(k) and instance.pop(k, default)
PopCall ==
    \E k \in AxisKeys, withDefault \in BOOLEAN :
        Mutated("pop",
                IF HasKey(data, k) THEN DelItem(data, k)
                ELSE [data |-> data, exc |-> IF withDefault THEN "None" ELSE "KeyError"])

\* instance.popitem(): the entry inserted last
PopItemCall ==
    Mutated("popitem",
            IF data = <<>> THEN [data |-> data, exc |-> "KeyError"]
            ELSE [data |-> RemoveAt(data, Len(data)), exc |-> "None"])

\* instance.clear()
ClearCall == Mutated("clear", [data |-> <<>>, exc |-> "None"])

\* instance.columns = labels
AxisSetCall ==
    \E labels \in LabelArgs :
        LET r == Axis__set__(data, klass, labels)
        IN  /\ data' = r.data
            /\ op' = "axis.set"
            /\ ret' = Result(r.exc, <<>>)
            /\ arg' = LabelsArg(data, klass, labels, r.exc)
            /\ UNCHANGED klass

\* instance.columns
AxisGetCall ==
    /\ op' = "axis.get"
    /\ ret' = Result("None", Axis__get__(data))
    /\ arg' = NoArg
    /\ UNCHANGED <<data, klass>>

Next ==
    \/ SetItemCall
    \/ DelItemCall
    \/ UpdateCall
    \/ IorCall
    \/ SetDefaultCall
    \/ PopCall
    \/ PopItemCall
    \/ ClearCall
    \/ AxisSetCall
    \/ AxisGetCall

Spec == Init /\ [][Next]_vars

\* --------------------------------------------------- claims on the axis

\* C1: when axis.set fails because the per-item hook rejects a label (at
\* any position), the container holds the same keys, in the same order,
\* bound to the same values as before the call.
C1_AxisAtomicity ==
    [][(op' = "axis.set" /\ ret'.exc = "TypeError") => data' = data]_vars

\* a RestrictedChild of three entries whose second new label was rejected,
\* after the first had been stored
C1_Witness ==
    /\ op = "axis.set" /\ ret.exc = "TypeError"
    /\ klass = "RestrictedChild" /\ Len(data) = 3
    /\ arg.n = 3 /\ arg.rej = 2

\* C2: axis.set with as many unique labels as there are keys, none of them
\* rejected, returns; then axis.get is the labels in order, the i-th value
\* is bound to the i-th label and no other key is left.
C2_AxisRoundTrip ==
    [][(op' = "axis.set" /\ ~arg'.dup /\ arg'.n = Len(data) /\ arg'.rej = 0)
        => /\ ret'.exc = "None"
           /\ Axis__get__(data') = arg'.labels
           /\ Len(data') = Len(data)
           /\ \A i \in 1..Len(data) :
                /\ data'[i].key = arg'.labels[i]
                /\ data'[i].val = data[i].val
           /\ KeySet(data') = {arg'.labels[i] : i \in 1..arg'.n}]_vars

\* three entries with values that differ were renamed to other labels
C2_Witness ==
    /\ op = "axis.set" /\ ret.exc = "None" /\ arg.new
    /\ Len(data) = 3 /\ KeysOf(data) = arg.labels
    /\ data[1].val # data[2].val

\* C3: axis.set with a repeated label, or with a label count that differs
\* from the key count, raises ValueError and leaves keys, order and values
\* as they were.
C3_RejectedInputNeverMutates ==
    [][(op' = "axis.set" /\ (arg'.dup \/ arg'.n # Len(data)))
        => (ret'.exc = "ValueError" /\ data' = data)]_vars

\* a call with the right count and a repeated label was refused
C3_Witness ==
    /\ op = "axis.set" /\ ret.exc = "ValueError"
    /\ arg.dup /\ arg.n = Len(data) /\ Len(data) = 3

\* C4: in every state reached by mapping mutations and by axis.set calls
\* that returned or raised, axis.get is the current keys in iteration
\* order, as many as the container has keys, none repeated; and what an
\* axis.get call returned is that sequence.
C4_AxisGetTracksKeys ==
    LET ax == Axis__get__(data)
    IN  /\ Len(ax) = Cardinality(KeySet(data))
        /\ Len(ax) = Len(data)
        /\ IsUnique(ax)
        /\ \A i \in 1..Len(data) : ax[i] = data[i].key
        /\ op = "axis.get" => ret.val = KeysOf(data)

\* axis.get was read on a container of three keys
C4_Witness ==
    /\ op = "axis.get" /\ Len(ret.val) = 3 /\ ret.val = KeysOf(data)

\* ------------------------------------------------------- pandas objects

(***************************************************************************)
(* A pandas object is a record: its class (kind), the labels of an Index,  *)
(* the row labels (index) and column labels (columns) of a Series or       *)
(* DataFrame, and its values by column (cells; a Series has one column).   *)
(* Labels and scalar values are [t, s] records like keys.  The metadata:   *)
(* dtype (element type of the values, of the labels for an Index), idtype  *)
(* and cdtype (element types of the row and column labels), freq (the      *)
(* freq of a DatetimeIndex, or of the index of a Series or DataFrame;      *)
(* "absent" for an index class without that attribute) and name.           *)
(***************************************************************************)
Obj(kind, labels, index, columns, cells) ==
    [kind |-> kind, labels |-> labels, index |-> index,
     columns |-> columns, cells |-> cells,
     dtype |-> "int64", idtype |-> "int64", cdtype |-> "object",
     freq |-> "absent", name |-> "None"]

IndexObj(labels) == Obj("Index", labels, <<>>, <<>>, <<>>)
SeriesObj(index, values) == Obj("Series", <<>>, index, <<>>, <<values>>)
DataFrameObj(index, columns, cells) == Obj("DataFrame", <<>>, index, columns, cells)
\* an object of no pandas class
OtherObj == Obj("Other", <<>>, <<>>, <<>>, <<>>)

\* _value_types of DictOfPandas
ValueTypes == {"Series", "DataFrame", "Index"}

\* the elements of a sequence
Range(q) == {q[i] : i \in 1..Len(q)}

\* the number an int label stands for
IntValue(l) ==
    CASE l.s = "0" -> 0 [] l.s = "1" -> 1 [] l.s = "2" -> 2 [] l.s = "3" -> 3
      [] OTHER -> 4

\* a set of int labels as an ascending sequence
RECURSIVE SortLabels(_)
SortLabels(S) ==
    IF S = {} THEN <<>>
    ELSE LET m == CHOOSE x \in S : \A y \in S : IntValue(x) <= IntValue(y)
         IN  <<m>> \o SortLabels(S \ {m})

\* the elements of a that satisfy Keep, in the order of a
RECURSIVE SelectIn(_, _)
SelectIn(a, S) ==
    IF a = <<>> THEN <<>>
    ELSE (IF Head(a) \in S THEN <<Head(a)>> ELSE <<>>) \o SelectIn(Tail(a), S)

\* pandas.Index.union(a, b), sort=None: a itself when b is empty or equal
\* to a, b when a is empty; otherwise the labels of both, ascending when
\* they can be ordered and a followed by the new labels of b when not.
PdUnion(a, b) ==
    IF b = <<>> \/ a = b THEN a
    ELSE IF a = <<>> THEN b
    ELSE IF \A l \in Range(a) \cup Range(b) : l.t = "int"
         THEN SortLabels(Range(a) \cup Range(b))
         ELSE a \o SelectIn(b, Range(b) \ Range(a))

\* pandas.Index.intersection(a, b), sort=False: the labels of a that are
\* in b, in the order of a
PdIntersection(a, b) == SelectIn(a, Range(b))

\* IndexMixin._get_indexes with the columns of a DataFrame in place of its
\* row labels
GetIndexesColumns(d) ==
    [i \in 1..Len(d) |->
        IF d[i].val.kind = "Index" THEN d[i].val.labels
        ELSE IF d[i].val.kind = "DataFrame" THEN d[i].val.columns
        ELSE d[i].val.index]

\* IndexMixin._get_indexes: the Index itself, or obj.index
GetIndexes(d) ==
    [i \in 1..Len(d) |->
        IF d[i].val.kind = "Index" THEN d[i].val.labels ELSE d[i].val.index]

\* functools.reduce(pd.Index.union, indexes), indexes not empty
RECURSIVE ReduceUnion(_)
ReduceUnion(indexes) ==
    IF Len(indexes) = 1 THEN indexes[1]
    ELSE PdUnion(ReduceUnion(SubSeq(indexes, 1, Len(indexes) - 1)),
                 indexes[Len(indexes)])

\* functools.reduce(pd.Index.intersection, indexes), indexes not empty
RECURSIVE ReduceIntersection(_)
ReduceIntersection(indexes) ==
    IF Len(indexes) = 1 THEN indexes[1]
    ELSE PdIntersection(ReduceIntersection(SubSeq(indexes, 1, Len(indexes) - 1)),
                        indexes[Len(indexes)])

\* IndexMixin.union_index
UnionIndex(d) ==
    LET indexes == GetIndexes(d)
    IN  IF indexes # <<>> THEN ReduceUnion(GetIndexes(d)) ELSE <<>>

\* IndexMixin.shared_index
SharedIndex(d) ==
    LET indexes == GetIndexes(d)
    IN  IF indexes # <<>> THEN ReduceIntersection(indexes) ELSE <<>>

\* ----------------------------------------------------------- DictOfPandas

\* str(i) for the small counters of _uniquify_name
IntStr(i) == <<"1", "2", "3", "4", "5", "6", "7", "8", "9">>[i]

\* repr() of a key inside the str() of a tuple
Repr(k) == IF k.t = "str" THEN "'" \o k.s \o "'" ELSE k.s

\* the tuple (key, col) as a key
TupleKey(k, col) == [t |-> "tuple", s |-> "(" \o Repr(k) \o ", " \o Repr(col) \o ")"]

\* DictOfPandas._uniquify_name: name, or name(i) for the first i from 1
\* that is no key of self
UniquifyName(d, name) ==
    IF ~HasKey(d, StrKey(name)) THEN name
    ELSE LET taken(i) == HasKey(d, StrKey(name \o "(" \o IntStr(i) \o ")"))
             i == CHOOSE n \in 1..(Len(d) + 1) :
                    ~taken(n) /\ \A m \in 1..(n - 1) : taken(m)
         IN  name \o "(" \o IntStr(i) \o ")"

\* column j of a DataFrame as a Series (dict(value).items())
ColumnSeries(df, j) == SeriesObj(df.index, df.cells[j])

\* pandas.Index.to_series: index and values are the labels
ToSeries(idx) == SeriesObj(idx.labels, idx.labels)

\* the inner loop of flatten over the columns j.. of the DataFrame at key
RECURSIVE FlattenColumns(_, _, _, _, _, _)
FlattenColumns(self, out, key, df, j, multiindex) ==
    IF j > Len(df.columns) THEN out
    ELSE LET col == df.columns[j]
             name == IF multiindex THEN TupleKey(key, col)
                     ELSE StrKey(UniquifyName(self, key.s \o "_" \o col.s))
         IN  FlattenColumns(self, DictSet(out, name, ColumnSeries(df, j)),
                            key, df, j + 1, multiindex)

\* the loop of flatten over the items i.. of self, filling the dict `data`
RECURSIVE FlattenItems(_, _, _, _, _)
FlattenItems(self, out, i, promote_index, multiindex) ==
    IF i > Len(self) THEN out
    ELSE LET key == self[i].key
             value == self[i].val
             next == IF value.kind = "DataFrame"
                     THEN FlattenColumns(self, out, key, value, 1, multiindex)
                     ELSE IF promote_index /\ value.kind = "Index"
                     THEN DictSet(out, key, ToSeries(value))
                     ELSE DictSet(out, key, value)
         IN  FlattenItems(self, next, i + 1, promote_index, multiindex)

\* DictOfPandas.flatten
Flatten(self, promote_index, multiindex) ==
    FlattenItems(self, <<>>, 1, promote_index, multiindex)

\* the position of label l in index, 0 when it is none of its labels
LabelPos(index, l) ==
    IF l \in Range(index) THEN CHOOSE i \in 1..Len(index) : index[i] = l ELSE 0

\* pandas.Series.reindex(target, fill_value=fill)
Reindex(ser, target, fill) ==
    SeriesObj(target,
              [i \in 1..Len(target) |->
                  IF LabelPos(ser.index, target[i]) = 0 THEN fill
                  ELSE ser.cells[1][LabelPos(ser.index, target[i])]])

\* pandas.DataFrame(dict of Series): the keys are the columns, the rows
\* are the union of the row labels of the Series; no rows for no Series
DataFrameFromDict(flat) ==
    DataFrameObj(IF flat = <<>> THEN <<>> ELSE ReduceUnion(GetIndexes(flat)),
                 KeysOf(flat),
                 [i \in 1..Len(flat) |-> flat[i].val.cells[1]])

\* DictOfPandas.to_pandas
ToPandas(self, how, fill_value, multiindex) ==
    IF how \notin {"inner", "outer"}
    THEN Result("ValueError", OtherObj)
    ELSE LET flat == Flatten(self, TRUE, multiindex)
             target_index == IF how = "outer" THEN UnionIndex(self)
                             ELSE SharedIndex(self)
         IN  Result("None",
                    DataFrameFromDict(
                        [i \in 1..Len(flat) |->
                            Entry(flat[i].key,
                                  Reindex(flat[i].val, target_index, fill_value))]))

\* ------------------------------------- the DictOfPandas specification

Lbl(s) == IntKey(s)
Val(s) == IntKey(s)

\* np.nan, the default fill_value of to_pandas
NaN == [t |-> "float", s |-> "nan"]

\* the keys of the containers: 'a', 'a_b', 'a_c' and the int 1
FrameKeys == {StrKey("a"), StrKey("a_b"), StrKey("a_c"), IntKey("1")}

\* the values offered to the containers: an Index, a Series, a DataFrame
\* of two columns, a DataFrame with rows and no column, and an object
\* that is no pandas object
FrameValues ==
    {IndexObj(<<Lbl("0"), Lbl("1")>>),
     SeriesObj(<<Lbl("1"), Lbl("2")>>, <<Val("22"), Val("23")>>),
     DataFrameObj(<<Lbl("0"), Lbl("1")>>, <<StrKey("c"), StrKey("b_c")>>,
                  <<(<<Val("1"), Val("2")>>), (<<Val("3"), Val("4")>>)>>),
     DataFrameObj(<<Lbl("2")>>, <<>>, <<>>),
     OtherObj}

\* TypedSliceDict.__setitem__ of DictOfPandas: any key, a value of one of
\* _value_types
TypedSetItem(d, k, v) ==
    IF v.kind \notin ValueTypes
    THEN [data |-> d, exc |-> "TypeError"]
    ELSE [data |-> DictSet(d, k, v), exc |-> "None"]

FrameInit ==
    /\ data = <<>>
    /\ klass = "DictOfPandas"
    /\ op = "init"
    /\ ret = Result("None", <<>>)
    /\ arg = <<>>

\* frame[k] = v
FrameSetItemCall ==
    \E k \in FrameKeys, v \in FrameValues :
        LET r == TypedSetItem(data, k, v)
        IN  /\ Len(r.data) <= MaxEntries
            /\ data' = r.data
            /\ op' = "setitem"
            /\ ret' = Result(r.exc, <<>>)
            /\ arg' = <<>>
            /\ UNCHANGED klass

\* frame.flatten(promote_index, multiindex)
FlattenCall ==
    \E promote_index \in BOOLEAN, multiindex \in BOOLEAN :
        /\ op' = "flatten"
        /\ ret' = Result("None", Flatten(data, promote_index, multiindex))
        /\ arg' = [promote_index |-> promote_index, multiindex |-> multiindex]
        /\ UNCHANGED <<data, klass>>

\* frame.to_pandas(how, fill_value, multiindex)
ToPandasCall ==
    \E how \in {"outer", "inner", "left"}, multiindex \in BOOLEAN :
        /\ op' = "to_pandas"
        /\ ret' = ToPandas(data, how, NaN, multiindex)
        /\ arg' = [how |-> how, fill_value |-> NaN, multiindex |-> multiindex]
        /\ UNCHANGED <<data, klass>>

\* frame.union_index()
UnionIndexCall ==
    /\ op' = "union_index"
    /\ ret' = Result("None", UnionIndex(data))
    /\ arg' = <<>>
    /\ UNCHANGED <<data, klass>>

\* frame.shared_index()
SharedIndexCall ==
    /\ op' = "shared_index"
    /\ ret' = Result("None", SharedIndex(data))
    /\ arg' = <<>>
    /\ UNCHANGED <<data, klass>>

FrameNext ==
    \/ FrameSetItemCall
    \/ FlattenCall
    \/ ToPandasCall
    \/ UnionIndexCall
    \/ SharedIndexCall

SpecFrame == FrameInit /\ [][FrameNext]_vars

\* ------------------------------------------------ claims on DictOfPandas

\* the label sequence of a value as the claims state it: the value itself
\* for an Index, the row labels for a Series or DataFrame
RowLabels(v) == IF v.kind = "Index" THEN v.labels ELSE v.index

\* the labels of any value, and the labels of every value
AnyLabels(d) == UNION {Range(RowLabels(d[i].val)) : i \in 1..Len(d)}
AllLabels(d) == {l \in AnyLabels(d) : \A i \in 1..Len(d) : l \in Range(RowLabels(d[i].val))}

\* C6: union_index() holds every label of every value's label sequence and
\* nothing else, shared_index() exactly the labels every value has; both
\* are empty for a container without values, and they are equal when all
\* values carry the same labels.  The columns of a DataFrame never enter.
C6_UnionIntersectionLaws ==
    /\ Range(UnionIndex(data)) = AnyLabels(data)
    /\ Range(SharedIndex(data)) = AllLabels(data)
    /\ data = <<>> => (UnionIndex(data) = <<>> /\ SharedIndex(data) = <<>>)
    /\ (\A i, j \in 1..Len(data) : RowLabels(data[i].val) = RowLabels(data[j].val))
          => UnionIndex(data) = SharedIndex(data)
    /\ op = "union_index" => Range(ret.val) = AnyLabels(data)
    /\ op = "shared_index" => Range(ret.val) = AllLabels(data)

\* union_index() of a DataFrame with columns and a Series with other row
\* labels returned the three row labels
C6_Witness ==
    /\ op = "union_index" /\ Len(ret.val) = 3 /\ Len(data) = 2
    /\ \E i \in 1..Len(data) :
          data[i].val.kind = "DataFrame" /\ data[i].val.columns # <<>>
    /\ \E i \in 1..Len(data) : data[i].val.kind = "Series"

\* the number of entries flatten is to return: one per value that is no
\* DataFrame and one per column of every DataFrame
RECURSIVE ExpectedEntries(_)
ExpectedEntries(d) ==
    IF d = <<>> THEN 0
    ELSE (IF Head(d).val.kind = "DataFrame" THEN Len(Head(d).val.columns) ELSE 1)
         + ExpectedEntries(Tail(d))

\* C7: flatten() with multiindex=False returns one entry per value that is
\* no DataFrame, under its key, and one Series per column of every
\* DataFrame under a name of its own: no value is lost or overwritten.
C7_FlattenKeepsEveryColumn ==
    (op = "flatten" /\ ~arg.multiindex) =>
        /\ Len(ret.val) = ExpectedEntries(data)
        /\ \A i \in 1..Len(data) :
              IF data[i].val.kind = "DataFrame"
              THEN \A j \in 1..Len(data[i].val.columns) :
                      \E n \in 1..Len(ret.val) :
                          ret.val[n].val = ColumnSeries(data[i].val, j)
              ELSE /\ HasKey(ret.val, data[i].key)
                   /\ ~arg.promote_index
                         => Lookup(ret.val, data[i].key) = data[i].val

\* C8: to_pandas(how='outer') returns a table whose row labels are
\* union_index(), to_pandas(how='inner') one whose row labels are
\* shared_index(); every flattened entry is one column on that row axis,
\* with fill_value where the entry has no such row label.
C8_ToPandasRowAxis ==
    (op = "to_pandas" /\ arg.how \in {"outer", "inner"}) =>
        LET target == IF arg.how = "outer" THEN UnionIndex(data) ELSE SharedIndex(data)
            flat == Flatten(data, TRUE, arg.multiindex)
        IN  /\ ret.exc = "None"
            /\ ret.val.index = target
            /\ ret.val.columns = KeysOf(flat)
            /\ \A c \in 1..Len(flat) : \A r \in 1..Len(target) :
                  ret.val.cells[c][r] =
                      IF target[r] \in Range(flat[c].val.index)
                      THEN flat[c].val.cells[1][LabelPos(flat[c].val.index, target[r])]
                      ELSE arg.fill_value

\* ----------------------------------------------- lib.py: simple equality

\* type(o): an Index that carries freq is a DatetimeIndex
TypeOf(o) == IF o.kind = "Index" /\ o.freq # "absent" THEN "DatetimeIndex" ELSE o.kind

\* isinstance(o, T): DatetimeIndex is a subclass of Index
IsInstance(o, T) == TypeOf(o) = T \/ (T = "Index" /\ TypeOf(o) = "DatetimeIndex")

\* Index.equals for label sequences
LabelsEqual(a, b) == a = b

\* a.equals(b) of a pandas object a: for an Index the labels; for a Series
\* or DataFrame the class, the axes, the values and their element type
Equals(a, b) ==
    IF a.kind = "Index"
    THEN b.kind = "Index" /\ LabelsEqual(a.labels, b.labels)
    ELSE /\ b.kind = a.kind
         /\ LabelsEqual(a.index, b.index)
         /\ LabelsEqual(a.columns, b.columns)
         /\ a.cells = b.cells
         /\ a.dtype = b.dtype

\* index_equals_other
IndexEqualsOther(this, other) ==
    IsInstance(other, "Index") /\ LabelsEqual(this.labels, other.labels)

\* series_equals_other as it would be if only the row labels were compared
SeriesEqualsOtherIndexOnly(this, other) ==
    IsInstance(other, "Series") /\ LabelsEqual(this.index, other.index)

\* series_equals_other
SeriesEqualsOther(this, other) ==
    /\ IsInstance(other, "Series")
    /\ LabelsEqual(this.index, other.index)
    /\ Equals(this, other)

\* dataframe_equals_other
DataFrameEqualsOther(this, other) ==
    /\ IsInstance(other, "DataFrame")
    /\ LabelsEqual(this.columns, other.columns)
    /\ LabelsEqual(this.index, other.index)
    /\ Equals(this, other)

\* pd_obj_equals_other: the result, or TypeError for a `this` of no
\* pandas class
PdObjEqualsOther(this, other) ==
    IF IsInstance(this, "DataFrame") THEN Result("None", DataFrameEqualsOther(this, other))
    ELSE IF IsInstance(this, "Series") THEN Result("None", SeriesEqualsOther(this, other))
    ELSE IF IsInstance(this, "Index") THEN Result("None", IndexEqualsOther(this, other))
    ELSE Result("TypeError", FALSE)

\* DictOfPandas.__eq__(self, other); other is [same, mapping, items]: whether
\* it is self, whether it is a dict or SliceDict, and its items
ContainerEq(self, other) ==
    IF other.same THEN Result("None", TRUE)
    ELSE IF ~other.mapping THEN Result("None", FALSE)
    ELSE IF KeySet(self) # KeySet(other.items) THEN Result("None", FALSE)
    ELSE LET values == Zip(ValuesOf(self), ValuesOf(other.items))
             eq(e) == PdObjEqualsOther(e[1], e[2])
             \* the pairs filter() stops at: eq raises, or is false
             stops == {i \in 1..Len(values) :
                          eq(values[i]).exc # "None" \/ ~eq(values[i]).val}
         IN  IF stops = {} THEN Result("None", TRUE)
             ELSE LET first == CHOOSE i \in stops : \A j \in stops : i <= j
                  IN  IF eq(values[first]).exc # "None"
                      THEN Result(eq(values[first]).exc, FALSE)
                      ELSE Result("None", FALSE)

\* ------------------------------------------- the equality specification

\* the pandas objects compared: two Index, three Series and four
\* DataFrame that differ in one respect each, and an object of no pandas
\* class
EqIndexes == {IndexObj(<<Lbl("0"), Lbl("1")>>), IndexObj(<<Lbl("0"), Lbl("2")>>)}
EqSeries ==
    {SeriesObj(<<Lbl("0"), Lbl("1")>>, <<Val("1"), Val("2")>>),
     SeriesObj(<<Lbl("0"), Lbl("1")>>, <<Val("1"), Val("3")>>),
     SeriesObj(<<Lbl("0"), Lbl("2")>>, <<Val("1"), Val("2")>>)}
EqDataFrames ==
    {DataFrameObj(<<Lbl("0"), Lbl("1")>>, <<StrKey("c")>>, <<(<<Val("1"), Val("2")>>)>>),
     DataFrameObj(<<Lbl("0"), Lbl("1")>>, <<StrKey("d")>>, <<(<<Val("1"), Val("2")>>)>>),
     DataFrameObj(<<Lbl("0"), Lbl("2")>>, <<StrKey("c")>>, <<(<<Val("1"), Val("2")>>)>>),
     DataFrameObj(<<Lbl("0"), Lbl("1")>>, <<StrKey("c")>>, <<(<<Val("1"), Val("3")>>)>>)}
EqObjects == EqIndexes \cup EqSeries \cup EqDataFrames \cup {OtherObj}

\* the keys and values of the containers compared
EqKeys == {StrKey("a"), StrKey("b")}
EqValues ==
    {IndexObj(<<Lbl("0"), Lbl("1")>>),
     SeriesObj(<<Lbl("0"), Lbl("1")>>, <<Val("1"), Val("2")>>),
     SeriesObj(<<Lbl("0"), Lbl("1")>>, <<Val("1"), Val("3")>>)}

\* the ordered mappings of at most MaxEntries items over keys K and values V
Mappings(K, V) ==
    {m \in SeqsUpTo([key : K, val : V], MaxEntries) : IsUnique(KeysOf(m))}

\* what self is compared with: itself, or a mapping or other object that
\* holds items (a plain dict may hold any value)
EqArgs(self) ==
    {[same |-> TRUE, mapping |-> TRUE, items |-> self]}
    \cup {[same |-> FALSE, mapping |-> m, items |-> o] :
            m \in BOOLEAN, o \in Mappings(EqKeys, EqValues \cup {OtherObj})}

EqInit ==
    /\ data \in Mappings(EqKeys, EqValues)
    /\ klass = "DictOfPandas"
    /\ op = "init"
    /\ ret = Result("None", FALSE)
    /\ arg = <<>>

\* self == other
ContainerEqCall ==
    /\ op = "init"
    /\ \E other \in EqArgs(data) :
        /\ op' = "eq"
        /\ arg' = other
        /\ ret' = ContainerEq(data, other)
    /\ UNCHANGED <<data, klass>>

\* lib.pd_obj_equals_other(this, other)
PdObjEqualsCall ==
    /\ op = "init"
    /\ \E this \in EqObjects, other \in EqObjects :
        /\ op' = "pd_obj_equals_other"
        /\ arg' = [this |-> this, other |-> other]
        /\ ret' = PdObjEqualsOther(this, other)
    /\ UNCHANGED <<data, klass>>

EqNext == ContainerEqCall \/ PdObjEqualsCall

SpecEq == EqInit /\ [][EqNext]_vars

\* ------------------------------------------------- claims on equality

\* valuesEqual as the claims state it: the same variant and equal column
\* labels, row labels and cell values
ValuesEqual(a, b) ==
    /\ a.kind = b.kind
    /\ a.kind \in ValueTypes
    /\ a.labels = b.labels
    /\ a.index = b.index
    /\ a.columns = b.columns
    /\ a.cells = b.cells

\* C5: a == b is true exactly when a and b have the same key set and equal
\* values under every key, whatever the order the keys were inserted in.
C5_ContainerEqIsKeyWise ==
    (op = "eq" /\ arg.mapping) =>
        /\ ret.exc = "None"
        /\ ret.val <=>
              /\ KeySet(data) = KeySet(arg.items)
              /\ \A k \in KeySet(data) :
                    ValuesEqual(Lookup(data, k), Lookup(arg.items, k))

\* C9: pd_obj_equals_other(a, b) on a pandas object a is true iff b is of
\* the same variant with equal labels and values, false for every other b
\* without raising; it raises TypeError only when a is no pandas object.
C9_ValuesEqual ==
    op = "pd_obj_equals_other" =>
        IF arg.this.kind \in ValueTypes
        THEN /\ ret.exc = "None"
             /\ ret.val <=> ValuesEqual(arg.this, arg.other)
        ELSE ret.exc = "TypeError"

\* a Series was compared with a Series of the same row labels and other
\* values
C9_Witness ==
    /\ op = "pd_obj_equals_other" /\ ret.exc = "None" /\ ~ret.val
    /\ arg.this.kind = "Series" /\ arg.other.kind = "Series"
    /\ arg.this.index = arg.other.index
    /\ arg.this.cells # arg.other.cells

\* ------------------------------------------ lib.py: other_equals_this

\* an object without pandas attributes that holds one value v: a plain
\* Python value, a dtype, a FrozenList of names, a freq
Meta(kind, v) == [Obj(kind, <<>>, <<>>, <<>>, <<>>) EXCEPT !.name = v]
Plain(v) == Meta("Other", v)

\* hasattr(o, name) for the attributes other_equals_this reads
HasAttr(o, name) ==
    CASE name = "index"   -> TypeOf(o) \in {"Series", "DataFrame"}
      [] name = "columns" -> TypeOf(o) = "DataFrame"
      [] name = "dtype"   -> TypeOf(o) \in {"Index", "DatetimeIndex", "Series"}
      [] name = "dtypes"  -> TypeOf(o) \in {"Series", "DataFrame"}
      [] name = "names"   -> TypeOf(o) \in {"Index", "DatetimeIndex"}
      [] name = "freq"    -> TypeOf(o) = "DatetimeIndex"
      [] name = "equals"  -> TypeOf(o) \in {"Index", "DatetimeIndex", "Series", "DataFrame"}
      [] OTHER -> FALSE

\* getattr(o, name), for an o that has the attribute
GetAttr(o, name) ==
    CASE name = "index"   -> [IndexObj(o.index) EXCEPT !.dtype = o.idtype, !.freq = o.freq]
      [] name = "columns" -> [IndexObj(o.columns) EXCEPT !.dtype = o.cdtype]
      [] name = "dtype"   -> Meta("dtype", o.dtype)
      [] name = "dtypes"  ->
            IF TypeOf(o) = "Series" THEN Meta("dtype", o.dtype)
            ELSE [SeriesObj(o.columns,
                            [j \in 1..Len(o.columns) |-> [t |-> "dtype", s |-> o.dtype]])
                  EXCEPT !.dtype = "object", !.idtype = o.cdtype]
      [] name = "names"   -> Meta("FrozenList", o.name)
      [] name = "freq"    -> Meta("freq", o.freq)

\* bool(a == b) inside the try of eq, for an a without equals(): equal
\* values of one class; a comparison with another class is unequal or
\* raises one of the errors caught there
PyEq(a, b) == a.kind = b.kind /\ a = b

Bool(b) == IF b THEN "True" ELSE "False"

\* the tail of eq(): a is b, a.equals(b), bool(a == b).  Identical
\* objects are equal under both comparisons.
EqObjects2(a, b) ==
    IF HasAttr(a, "equals") THEN Bool(Equals(a, b)) ELSE Bool(PyEq(a, b))

\* eq(a, b, name) of other_equals_this, name "" for None: "True", "False",
\* or "AttributeError" when a has no attribute of that name
EqAttr(a, b, name) ==
    IF name = "" THEN EqObjects2(a, b)
    ELSE IF ~HasAttr(a, name) THEN "AttributeError"
    ELSE IF ~HasAttr(b, name) THEN "False"
    ELSE EqObjects2(GetAttr(a, name), GetAttr(b, name))

\* `if not eq(...): return False`: "pass" to go on, or what ends the call
Unless(r) == IF r = "True" THEN "pass" ELSE r

\* the outcome of the first step that does not pass; "pass" when all do
RECURSIVE FirstStop(_)
FirstStop(steps) ==
    IF steps = <<>> THEN "pass"
    ELSE IF Head(steps) # "pass" THEN Head(steps)
    ELSE FirstStop(Tail(steps))

\* the flags as they stand after the three defaulting statements
DefaultedFlags(this, f) ==
    LET auto_freq == f.check_freq = "None" /\ HasAttr(this, "freq")
        index1 == IF auto_freq /\ f.check_index = "None" THEN "False" ELSE f.check_index
    IN  [f EXCEPT
            !.check_freq = IF auto_freq THEN "True" ELSE f.check_freq,
            !.check_index = IF index1 = "None" /\ HasAttr(this, "index")
                            THEN "True" ELSE index1,
            !.check_columns = IF f.check_columns = "None" /\ HasAttr(this, "columns")
                              THEN "True" ELSE f.check_columns]

\* the check_index block and its elif
IndexStep(this, other, f) ==
    IF f.check_index = "True"
    THEN IF EqAttr(this, other, "index") # "True"
         THEN EqAttr(this, other, "index")
         ELSE LET ti == GetAttr(this, "index")
                  oi == GetAttr(other, "index")
                  freqs == (IF HasAttr(ti, "freq") THEN 1 ELSE 0)
                           + (IF HasAttr(oi, "freq") THEN 1 ELSE 0)
              IN  FirstStop(<<
                    IF f.check_index_dtype THEN Unless(EqAttr(ti, oi, "dtype")) ELSE "pass",
                    IF f.check_freq = "True"
                    THEN IF freqs = 1 THEN "False"
                         ELSE IF freqs = 2 THEN Unless(EqAttr(ti, oi, "freq"))
                         ELSE "pass"
                    ELSE "pass">>)
    ELSE IF f.check_freq = "True" THEN Unless(EqAttr(this, other, "freq"))
    ELSE "pass"

\* the check_columns block
ColumnsStep(this, other, f) ==
    IF f.check_columns = "True"
    THEN IF EqAttr(this, other, "columns") # "True"
         THEN EqAttr(this, other, "columns")
         ELSE IF f.check_columns_dtype
              THEN Unless(EqAttr(GetAttr(this, "columns"), GetAttr(other, "columns"), "dtype"))
              ELSE "pass"
    ELSE "pass"

\* the check_dtypes block as it would be if a 'this' without dtypes and
\* dtype were passed over instead of raising
DtypesStepSilent(this, other, f) ==
    IF f.check_dtypes
    THEN IF HasAttr(this, "dtypes") THEN Unless(EqAttr(this, other, "dtypes"))
         ELSE IF HasAttr(this, "dtype") THEN Unless(EqAttr(this, other, "dtype"))
         ELSE "pass"
    ELSE "pass"

\* the check_dtypes block: the for/else over "dtypes" and "dtype"
DtypesStep(this, other, f) ==
    IF f.check_dtypes
    THEN IF HasAttr(this, "dtypes") THEN Unless(EqAttr(this, other, "dtypes"))
         ELSE IF HasAttr(this, "dtype") THEN Unless(EqAttr(this, other, "dtype"))
         ELSE "AttributeError"
    ELSE "pass"

\* other_equals_this(this, other, **flags); same: other is this.  The
\* value returned is "True", "False" or "None" (the end of the body is
\* reached without a return statement).
OtherEqualsThis(this, other, same, flags) ==
    LET f == DefaultedFlags(this, flags)
        stop == FirstStop(<<
            IF f.check_type /\ ~IsInstance(other, TypeOf(this)) THEN "False" ELSE "pass",
            IF f.check_values THEN Unless(EqAttr(this, other, "")) ELSE "pass",
            IndexStep(this, other, f),
            ColumnsStep(this, other, f),
            DtypesStep(this, other, f),
            IF f.check_names THEN Unless(EqAttr(this, other, "names")) ELSE "pass">>)
    IN  IF same THEN Result("None", "True")
        ELSE IF stop = "pass" THEN Result("None", "None")
        ELSE IF stop = "AttributeError" THEN Result("AttributeError", "None")
        ELSE Result("None", stop)

\* -------------------------------- the other_equals_this specification

Date(s) == [t |-> "date", s |-> s]

DeepIdx == IndexObj(<<Lbl("0"), Lbl("1")>>)
DeepDti ==
    [IndexObj(<<Date("d1"), Date("d2")>>) EXCEPT !.dtype = "datetime64", !.freq = "D"]
DeepSer == SeriesObj(<<Lbl("0"), Lbl("1")>>, <<Val("1"), Val("2")>>)
DeepDf ==
    DataFrameObj(<<Lbl("0"), Lbl("1")>>, <<StrKey("c")>>, <<(<<Val("1"), Val("2")>>)>>)

\* the objects compared: two plain values; an Index, the same labels as
\* floats, a DatetimeIndex with and without a freq; a Series, one with
\* other values and one on the DatetimeIndex; a DataFrame and one with
\* another column label
DeepObjects ==
    {Plain("1"), Plain("2"),
     DeepIdx,
     [DeepIdx EXCEPT !.dtype = "float64"],
     DeepDti,
     [DeepDti EXCEPT !.freq = "None"],
     DeepSer,
     SeriesObj(<<Lbl("0"), Lbl("1")>>, <<Val("1"), Val("3")>>),
     [SeriesObj(<<Date("d1"), Date("d2")>>, <<Val("1"), Val("2")>>)
        EXCEPT !.idtype = "datetime64", !.freq = "D"],
     DeepDf,
     DataFrameObj(<<Lbl("0"), Lbl("1")>>, <<StrKey("d")>>, <<(<<Val("1"), Val("2")>>)>>)}

Tri == {"None", "True", "False"}

\* every setting of the keyword arguments
DeepFlags ==
    [check_type : BOOLEAN, check_values : BOOLEAN, check_index : Tri,
     check_columns : Tri, check_dtypes : BOOLEAN, check_index_dtype : BOOLEAN,
     check_columns_dtype : BOOLEAN, check_names : BOOLEAN, check_freq : Tri]

\* the defaults of the keyword arguments
DefaultFlags ==
    [check_type |-> TRUE, check_values |-> TRUE, check_index |-> "None",
     check_columns |-> "None", check_dtypes |-> FALSE, check_index_dtype |-> FALSE,
     check_columns_dtype |-> FALSE, check_names |-> FALSE, check_freq |-> "None"]

DeepInit ==
    /\ data = <<>>
    /\ klass = "lib"
    /\ op = "init"
    /\ ret = Result("None", "None")
    /\ arg = <<>>

\* lib.other_equals_this(this, other, **flags) on two objects, or on one
\* object passed twice; equal plain values are small ints, which the
\* interpreter shares, so they are one object
OtherEqualsThisCall ==
    /\ op = "init"
    /\ \E this \in DeepObjects, other \in DeepObjects, same \in BOOLEAN,
          flags \in DeepFlags :
        /\ same => other = this
        /\ (this.kind = "Other" /\ other = this) => same
        /\ op' = "other_equals_this"
        /\ arg' = [this |-> this, other |-> other, same |-> same, flags |-> flags]
        /\ ret' = OtherEqualsThis(this, other, same, flags)
    /\ UNCHANGED <<data, klass>>

DeepNext == OtherEqualsThisCall

SpecDeep == DeepInit /\ [][DeepNext]_vars

\* --------------------------------------- claims on other_equals_this

\* bool(v) of a returned value
Truthy(v) == v = "True"

\* C10: for two distinct objects, other_equals_this returns either False
\* (an enabled facet failed) or, when no enabled facet failed, a truthy
\* value that a caller can use as 'equal'.
C10_DeepEqualSuccessIsTruthy ==
    (op = "other_equals_this" /\ ~arg.same /\ ret.exc = "None")
        => (ret.val = "False" \/ Truthy(ret.val))

\* the call compared two DataFrames with the same row labels and cells and
\* other column labels, every flag but check_columns at its default
ColumnsOnlyDiffer ==
    /\ op = "other_equals_this" /\ ~arg.same
    /\ arg.this.kind = "DataFrame" /\ arg.other.kind = "DataFrame"
    /\ arg.this.index = arg.other.index
    /\ arg.this.cells = arg.other.cells
    /\ arg.this.columns # arg.other.columns
    /\ [arg.flags EXCEPT !.check_columns = "None"] = DefaultFlags

\* C11: two DataFrames that differ in their column labels only are
\* reported equal with check_columns off and unequal with check_columns
\* on, the other flags at their defaults.
C11_FacetIndependence ==
    ColumnsOnlyDiffer =>
        /\ arg.flags.check_columns = "False" => Truthy(ret.val)
        /\ arg.flags.check_columns = "True" => (ret.exc = "None" /\ ret.val = "False")

\* 'this' has neither a dtypes nor a dtype attribute
NoDtype(o) == ~HasAttr(o, "dtypes") /\ ~HasAttr(o, "dtype")

\* C12: other_equals_this returns without raising for every pair of
\* objects and every setting of the flags, but for the AttributeError of
\* check_dtypes on a 'this' without dtypes and dtype; check_names on an
\* object without a names attribute does not raise.
C12_DeepEqualIsTotal ==
    op = "other_equals_this" =>
        /\ ret.exc # "None" =>
              (ret.exc = "AttributeError" /\ arg.flags.check_dtypes /\ NoDtype(arg.this))
        /\ (arg.flags.check_names /\ ~HasAttr(arg.this, "names") /\ ~arg.flags.check_dtypes)
              => ret.exc = "None"

MaxCols == 3
MaxRows == 3

\* ch * n
RECURSIVE Repeat(_, _)
Repeat(ch, n) == IF n <= 0 THEN "" ELSE ch \o Repeat(ch, n - 1)

\* str.ljust, str.rjust and str.center with the fill character ' '
LJust(t, n) == t \o Repeat(" ", n - Len(t))
RJust(t, n) == Repeat(" ", n - Len(t)) \o t
Center(t, n) ==
    LET pad == n - Len(t)
        left == (pad \div 2) + (IF pad % 2 = 1 /\ n % 2 = 1 THEN 1 ELSE 0)
    IN  IF pad <= 0 THEN t
        ELSE Repeat(" ", left) \o t \o Repeat(" ", pad - left)

\* Formatter._get_maxlen
RECURSIVE GetMaxlen(_)
GetMaxlen(lines) ==
    IF Len(lines) = 1 THEN Len(lines[1])
    ELSE LET m == GetMaxlen(Tail(lines))
         IN  IF Len(Head(lines)) > m THEN Len(Head(lines)) ELSE m

\* Formatter._justify(text) with width None and site 'left'
Justify(lines) == [i \in 1..Len(lines) |-> LJust(lines[i], GetMaxlen(lines))]

\* Formatter.key_to_string: str(key)
KeyToString(key) == key.s

\* Formatter._stringify_empty_class, for the class names of pandas
StringifyEmptyClass(name) == "Empty " \o name

\* str(n) for a count
CountStr(n) == <<"0", "1", "2", "3", "4", "5", "6", "7", "8", "9">>[n + 1]

\* DataFrame.to_string(header=..., index_names=False) without truncation:
\* a line of column labels when header is set, then one line per row
PdFrameToString(index, columns, cells, header) ==
    LET row(i) == [j \in 1..Len(columns) |-> "  " \o cells[j][i].s]
        RECURSIVE Join(_)
        Join(q) == IF q = <<>> THEN "" ELSE Head(q) \o Join(Tail(q))
        head == " " \o Join([j \in 1..Len(columns) |-> "  " \o columns[j].s])
        body == [i \in 1..Len(index) |-> index[i].s \o Join(row(i))]
    IN  IF header THEN <<head>> \o body ELSE body

\* Formatter._stringify_Series
StringifySeries(v) ==
    IF v.index = <<>>
    THEN Justify(<<StringifyEmptyClass("Series"), " rows: " \o CountStr(Len(v.index))>>)
    ELSE PdFrameToString(v.index, <<StrKey(" ")>>, v.cells, FALSE)

\* Formatter._stringify_Index
StringifyIndex(v) ==
    IF v.labels = <<>>
    THEN <<StringifyEmptyClass("Index")>>
    ELSE PdFrameToString(v.labels, <<StrKey(" ")>>,
                         <<[i \in 1..Len(v.labels) |-> StrKey("")]>>, FALSE)

\* Formatter._stringify_DataFrame
StringifyDataFrame(v, show_df_column_names) ==
    IF v.index = <<>> \/ v.columns = <<>>
    THEN Justify(<<StringifyEmptyClass("DataFrame"),
                   " rows:    " \o CountStr(Len(v.index)),
                   " columns: " \o CountStr(Len(v.columns))>>)
    ELSE PdFrameToString(v.index, v.columns, v.cells, show_df_column_names)

\* Formatter.stringify(obj).splitlines()
Stringify(v, show_df_column_names) ==
    CASE v.kind = "Index" -> StringifyIndex(v)
      [] v.kind = "Series" -> StringifySeries(v)
      [] v.kind = "DataFrame" -> StringifyDataFrame(v, show_df_column_names)
      [] OTHER -> <<"object">>

\* the first loop of to_string: objects[key] = lines and widths[key], both
\* dicts keyed by key_to_string(key); one dict of [lines, width] here
RECURSIVE BuildObjects(_, _, _)
BuildObjects(items, objects, show_df_column_names) ==
    IF items = <<>> THEN objects
    ELSE LET key == KeyToString(Head(items).key)
             lines == Stringify(Head(items).val, show_df_column_names)
         IN  BuildObjects(Tail(items),
                          DictSet(objects, key,
                                  [lines |-> lines,
                                   width |-> GetMaxlen(Append(lines, key))]),
                          show_df_column_names)

\* int(shutil.get_terminal_size().columns * 0.8)
DisplayWidth(terminal_columns) == (terminal_columns * 8) \div 10

\* the loop over zip(keys, keys[::-1]) from its i-th round on: the sets
\* front_keys and back_keys
RECURSIVE SelectKeys(_, _, _, _, _, _)
SelectKeys(objects, i, line_length, front_keys, back_keys, display_width) ==
    IF i > Len(objects) THEN [front |-> front_keys, back |-> back_keys]
    ELSE LET fkey == objects[i].key
             bkey == objects[Len(objects) + 1 - i].key
             l1 == line_length + Lookup(objects, fkey).width
             front == IF l1 < display_width THEN front_keys \cup {fkey} ELSE front_keys
             l2 == l1 + Lookup(objects, bkey).width
             back == IF l2 < display_width THEN back_keys \cup {bkey} ELSE back_keys
         IN  SelectKeys(objects, i + 1, l2, front, back, display_width)

\* Formatter._add: one element (key, lines, n) of __to_render
Add(key, lines) == [key |-> key, lines |-> lines, n |-> GetMaxlen(Append(lines, key))]

\* the entries of objects whose key is in keys, as elements of __to_render
Added(objects, keys) ==
    LET sel == SelectSeq(objects, LAMBDA e : e.key \in keys)
    IN  [i \in 1..Len(sel) |-> Add(sel[i].key, sel[i].val.lines)]

\* the three statements of to_string that fill __to_render
ToRender(objects, front_keys, back_keys) ==
    Added(objects, front_keys)
    \o (IF front_keys \cap back_keys = {} /\ front_keys \cup back_keys # KeySet(objects)
        THEN <<Add("...", <<"...">>)>> ELSE <<>>)
    \o Added(objects, back_keys \ front_keys)

\* what the generator __iter4ever of a column yields as its r-th element
Iter4Ever(col, r) ==
    IF r <= Len(col.lines)
    THEN [empty |-> FALSE, s |-> Center(col.lines[r], col.n)]
    ELSE [empty |-> TRUE, s |-> Repeat(" ", col.n)]

\* __make_body_row as it would be if it returned None as soon as one
\* generator is exhausted
MakeBodyRowAnyExhausted(to_render, r) ==
    LET got == [c \in 1..Len(to_render) |-> Iter4Ever(to_render[c], r)]
        count == Cardinality({c \in 1..Len(to_render) : got[c].empty})
    IN  [none |-> count >= 1,
         cells |-> [c \in 1..Len(to_render) |-> got[c].s]]

\* __make_body_row for the r-th call: the cells of the row; none when all
\* generators are exhausted and the code returns None
MakeBodyRow(to_render, r) ==
    LET got == [c \in 1..Len(to_render) |-> Iter4Ever(to_render[c], r)]
        count == Cardinality({c \in 1..Len(to_render) : got[c].empty})
    IN  [none |-> count = Len(to_render),
         cells |-> [c \in 1..Len(to_render) |-> got[c].s]]

\* the while loop of _render from its r-th round on
RECURSIVE BodyRows(_, _)
BodyRows(to_render, r) ==
    IF MakeBodyRow(to_render, r).none THEN <<>>
    ELSE <<MakeBodyRow(to_render, r).cells>> \o BodyRows(to_render, r + 1)

\* Formatter._render: header row, separator row, body rows
Render(to_render) ==
    [text |-> "",
     header |-> [c \in 1..Len(to_render) |-> RJust(to_render[c].key, to_render[c].n)],
     seperator |-> [c \in 1..Len(to_render) |-> Repeat("=", to_render[c].n)],
     body |-> BodyRows(to_render, 1)]

\* Formatter(obj, None, None, show_df_column_names).to_string() on a
\* terminal of terminal_columns columns: the text for an empty container,
\* the grid for any other
FormatterToString(obj, cls, show_df_column_names, terminal_columns) ==
    IF Len(obj) = 0
    THEN [text |-> StringifyEmptyClass(cls),
          header |-> <<>>, seperator |-> <<>>, body |-> <<>>]
    ELSE LET objects == BuildObjects(obj, <<>>, show_df_column_names)
             sel == SelectKeys(objects, 1, 0, {}, {}, DisplayWidth(terminal_columns))
         IN  Render(ToRender(objects, sel.front, sel.back))

\* ----------------------------------------- the formatter specification

\* a Series of n rows, labels 0..n-1, every value v
SeriesOfLen(n, v) ==
    SeriesObj([i \in 1..n |-> Lbl(CountStr(i - 1))], [i \in 1..n |-> Val(v)])

\* the keys of the containers rendered: 'a', the int 1, the str '1' and a
\* key longer than every line of its value
FmtKeys == {StrKey("a"), IntKey("1"), StrKey("1"), StrKey("a_long_key")}

\* the values rendered: Series of 0, 1 and MaxRows rows, an Index of two
\* labels and a DataFrame of two rows and one column
FmtValues ==
    {SeriesOfLen(0, "11"), SeriesOfLen(1, "11"), SeriesOfLen(MaxRows, "22"),
     IndexObj(<<Lbl("0"), Lbl("1")>>),
     DataFrameObj(<<Lbl("0"), Lbl("1")>>, <<StrKey("c")>>, <<(<<Val("1"), Val("2")>>)>>)}

\* the widths of the terminal, in columns
Terminals == {5, 25, 100}

FmtInit ==
    /\ data = <<>>
    /\ klass = "DictOfPandas"
    /\ op = "init"
    /\ ret = Result("None", <<>>)
    /\ arg = <<>>

\* frame[k] = v
FmtSetItemCall ==
    \E k \in FmtKeys, v \in FmtValues :
        LET r == TypedSetItem(data, k, v)
        IN  /\ Len(r.data) <= MaxCols
            /\ data' = r.data
            /\ op' = "setitem"
            /\ ret' = Result(r.exc, <<>>)
            /\ arg' = <<>>
            /\ UNCHANGED klass

\* frame.to_string() on a terminal of some width
ToStringCall ==
    \E terminal_columns \in Terminals :
        /\ op' = "to_string"
        /\ ret' = Result("None", FormatterToString(data, klass, TRUE, terminal_columns))
        /\ arg' = [terminal_columns |-> terminal_columns]
        /\ UNCHANGED <<data, klass>>

FmtNext == FmtSetItemCall \/ ToStringCall

SpecFormat == FmtInit /\ [][FmtNext]_vars

\* ----------------------------------------------- claims on the formatter

\* to_string() rendered a container of two Series, each in a column of
\* its own
TwoSeriesRendered ==
    /\ op = "to_string" /\ Len(data) = 2
    /\ data[1].val.kind = "Series" /\ data[2].val.kind = "Series"
    /\ Len(ret.val.header) = 2
    /\ \A c \in 1..2 : ret.val.header[c] # "..."

\* the larger of two numbers
Max(a, b) == IF a > b THEN a ELSE b

\* the number of text lines a Series is rendered in: one per row, and the
\* two lines 'Empty Series' and ' rows: 0' for a Series without rows
SeriesLines(v) == IF Len(v.index) = 0 THEN 2 ELSE Len(v.index)

\* the cells of column c below its first n rows are blank and as wide as
\* the column
PaddedBelow(c, n) ==
    \A r \in 1..Len(ret.val.body) :
        r > n => ret.val.body[r][c] = Repeat(" ", Len(ret.val.header[c]))

ColumnOf(e) == Add(KeyToString(e.key), Stringify(e.val, TRUE))

\* the grid of the first p entries, the '...' column when entries are left
\* out, and the last q entries
PrefixSuffixGrid(d, p, q) ==
    Render([i \in 1..p |-> ColumnOf(d[i])]
           \o (IF p + q < Len(d) THEN <<Add("...", <<"...">>)>> ELSE <<>>)
           \o [i \in 1..q |-> ColumnOf(d[Len(d) - q + i])])

\* C15: for a container with entries and any terminal width, the rendered
\* columns are a prefix of the entries followed by a suffix of the entries,
\* in their order and each once; the '...' column stands between the two
\* exactly when an entry is left out.
C15_PrefixPlaceholderSuffix ==
    (op = "to_string" /\ Len(data) >= 1) =>
        \E p \in 0..Len(data) : \E q \in 0..(Len(data) - p) :
            ret.val = PrefixSuffixGrid(data, p, q)

\* twice the widths of all columns stay under the usable width, so that
\* both passes of the selection loop take every key
AllFit(d, terminal_columns) ==
    LET RECURSIVE Total(_)
        Total(q) == IF q = <<>> THEN 0 ELSE ColumnOf(Head(q)).n + Total(Tail(q))
    IN  2 * Total(d) < DisplayWidth(terminal_columns)

\* C16: a container of n >= 1 entries whose columns all fit is rendered in
\* n columns, the i-th being the i-th key with its own value, whatever the
\* keys are.
C16_OneColumnPerEntry ==
    (op = "to_string" /\ Len(data) >= 1 /\ AllFit(data, arg.terminal_columns)) =>
        /\ Len(ret.val.header) = Len(data)
        /\ ret.val = Render([i \in 1..Len(data) |-> ColumnOf(data[i])])

\* ------------------------------- Axis.__set__ statement by statement

(***************************************************************************)
(* SpecSteps runs Axis.__set__ one statement at a time, so that the dict   *)
(* an observer finds in instance.data between two statements is a state.   *)
(* While a call runs, op names the statement that comes next and arg is    *)
(* the frame of the call: the new labels (value), the dict named by the    *)
(* local `data` (old) and the number j of pairs update() has stored.       *)
(***************************************************************************)

\* the statements a running call can stand before
Running == {"axis.set:clear", "axis.set:update", "axis.set:finally"}

Frame(value, old, j) == [value |-> value, old |-> old, j |-> j]

\* instance.data = {} as it would be if the dict were kept
ClearedKept(d) == d

\* instance.data = {}
Cleared(d) == <<>>

StepsInit ==
    /\ data = <<>>
    /\ klass \in Classes
    /\ op = "init"
    /\ ret = Result("None", <<>>)
    /\ arg = NoArg

\* instance[k] = v, between two calls of Axis.__set__
StepsSetItemCall == op \notin Running /\ SetItemCall

\* instance.columns = labels up to the try statement: the two checks raise
\* ValueError, or the local `data` is bound to instance.data
AxisSetEnter ==
    /\ op \notin Running
    /\ \E labels \in LabelArgs :
        LET value == PdIndex(labels)
        IN  IF ~IsUnique(value) \/ Len(KeysOf(data)) # Len(value)
            THEN /\ op' = "axis.set"
                 /\ ret' = Result("ValueError", <<>>)
                 /\ arg' = NoArg
            ELSE /\ op' = "axis.set:clear"
                 /\ ret' = Result("None", <<>>)
                 /\ arg' = Frame(value, data, 0)
    /\ UNCHANGED <<data, klass>>

\* instance.data = {}
AxisSetClear ==
    /\ op = "axis.set:clear"
    /\ data' = Cleared(data)
    /\ op' = "axis.set:update"
    /\ UNCHANGED <<klass, ret, arg>>

\* update() stores the next pair of zip(value, data.values()): the hook
\* raises and control goes to the finally clause, or the pair is stored
AxisSetStore ==
    /\ op = "axis.set:update"
    /\ arg.j < Len(arg.value)
    /\ LET r == SetItem(data, klass, arg.value[arg.j + 1], arg.old[arg.j + 1].val)
       IN  IF r.exc # "None"
           THEN /\ op' = "axis.set:finally"
                /\ ret' = Result(r.exc, <<>>)
                /\ UNCHANGED <<data, arg>>
           ELSE /\ data' = r.data
                /\ arg' = [arg EXCEPT !.j = arg.j + 1]
                /\ UNCHANGED <<op, ret>>
    /\ UNCHANGED klass

\* update() has returned: data = instance.data, then the finally clause
\* instance.data = data, and the call returns
AxisSetReturn ==
    /\ op = "axis.set:update"
    /\ arg.j = Len(arg.value)
    /\ op' = "axis.set"
    /\ ret' = Result("None", <<>>)
    /\ UNCHANGED <<data, klass, arg>>

\* the finally clause after an error: instance.data = data, the old dict,
\* and the error leaves the call
AxisSetRestore ==
    /\ op = "axis.set:finally"
    /\ data' = arg.old
    /\ op' = "axis.set"
    /\ UNCHANGED <<klass, ret, arg>>

StepsNext ==
    \/ StepsSetItemCall
    \/ AxisSetEnter
    \/ AxisSetClear
    \/ AxisSetStore
    \/ AxisSetReturn
    \/ AxisSetRestore

SpecSteps == StepsInit /\ [][StepsNext]_vars

\* ------------------------------------- claims on the steps of axis.set

\* the dict of the first j new labels bound to the first j old values
Renamed(value, old, j) == [i \in 1..j |-> Entry(value[i], old[i].val)]

\* C17: from the clear to the return of axis.set an observer finds the
\* first j new labels bound to the first j old values, 0 <= j <= N, and
\* never old and new keys mixed; the old dict is back only when the call
\* has failed, the complete new dict is in place when it has returned.
C17_IntermediateStates ==
    /\ op \in {"axis.set:update", "axis.set:finally"} =>
          /\ arg.j \in 0..Len(arg.value)
          /\ data = Renamed(arg.value, arg.old, arg.j)
          /\ op = "axis.set:finally" => arg.j < Len(arg.value)
    /\ (op = "axis.set" /\ ret.exc = "TypeError") => data = arg.old
    /\ (op = "axis.set" /\ ret.exc = "None") =>
          data = Renamed(arg.value, arg.old, Len(arg.old))

\* an observer finds the container empty while a container of MaxLen
\* entries is being renamed
C17_Witness ==
    /\ op = "axis.set:update"
    /\ Len(arg.old) = MaxLen
    /\ arg.j = 0
    /\ data = <<>>

=============================================================================
